---- MODULE Spec2Model ----
(***************************************************************************)
(* A model of the raytrace-rs rendering core: the f32 vector algebra of    *)
(* linalg.rs, the sphere and background intersection tests of hit.rs and   *)
(* material.rs, the nearest-hit scan, camera and render loop of tracer.rs  *)
(* and the pixel raster of image.rs.                                       *)
(*                                                                         *)
(* Numbers.  An f32 is modelled bit for bit as a triple <<s, m, e>> of     *)
(* integers: the value (-1)^s * m * 2^e with 0 <= m < 2^24.  A normal      *)
(* number has 2^23 <= m and -149 <= e <= 104, a subnormal has e = -149,    *)
(* the zeros are <<0, 0, -149>> and <<1, 0, -149>>, the infinities         *)
(* <<s, 0, 105>> and NaN <<0, 1, 105>>.  Addition, subtraction,            *)
(* multiplication, division and the square root round to nearest, ties to  *)
(* even, as IEEE 754 does; TLC's integers are 32 bits wide, so a product   *)
(* is formed from 12-bit halves, a quotient seven bits a step and a root   *)
(* bit by bit.                                                             *)
(*                                                                         *)
(* Style.  A value used more than once is passed as a parameter of a       *)
(* helper (SphereHitRoots, RefractSide, ...) rather than named in a LET,   *)
(* so that each is computed once.                                          *)
(***************************************************************************)
EXTENDS Integers, Sequences, FiniteSets, TLC

----------------------------------------------------------------------------
(* f32 scalars (linalg.rs: fVec, image.rs: fCol)                           *)

Abs(n) == IF n < 0 THEN -n ELSE n

(* The number of bits of x >= 0: 0 for 0, k for 2^(k-1) <= x < 2^k.        *)
BitLen4(x) == IF x >= 8 THEN 4 ELSE IF x >= 4 THEN 3 ELSE IF x >= 2 THEN 2 ELSE IF x >= 1 THEN 1 ELSE 0
BitLen8(x) == IF x >= 16 THEN 4 + BitLen4(x \div 16) ELSE BitLen4(x)
BitLen16(x) == IF x >= 256 THEN 8 + BitLen8(x \div 256) ELSE BitLen8(x)
BitLen(x) == IF x >= 65536 THEN 16 + BitLen16(x \div 65536) ELSE BitLen16(x)

(* The layout of an f32: 24 significant bits, the exponent of the lowest   *)
(* bit between ExpMin (subnormals) and ExpMax.                             *)
SigBits == 24
ExpMin == -149
ExpMax == 104
ExpSpecial == 105

PosZero == <<0, 0, ExpMin>>
NegZero == <<1, 0, ExpMin>>
PosInf == <<0, 0, ExpSpecial>>
NegInf == <<1, 0, ExpSpecial>>
NaN == <<0, 1, ExpSpecial>>
Zero(s) == <<s, 0, ExpMin>>
Inf(s) == <<s, 0, ExpSpecial>>

IsNaN(a) == a = NaN
IsInfinite(a) == a[3] = ExpSpecial /\ a[2] = 0
IsFinite(a) == a[3] # ExpSpecial
IsZero(a) == a[2] = 0 /\ a[3] = ExpMin

(* x shifted right by k bits, a bit lost kept as a set lowest bit.         *)
ShiftRightJamBy(x, p) ==
    IF x % p = 0 \/ (x \div p) % 2 = 1 THEN x \div p ELSE (x \div p) + 1

ShiftRightJam(x, k) ==
    IF k = 0 THEN x
    ELSE IF k > 30 THEN (IF x = 0 THEN 0 ELSE 1)
    ELSE ShiftRightJamBy(x, 2^k)

(* s, m, e with m <= 2^24 made an f32: the carry out of rounding and the   *)
(* overflow to infinity.                                                   *)
Pack(s, m, e) ==
    IF m = 0 THEN Zero(s)
    ELSE IF m = 16777216
    THEN (IF e + 1 > ExpMax THEN Inf(s) ELSE <<s, 8388608, e + 1>>)
    ELSE IF e > ExpMax THEN Inf(s)
    ELSE <<s, m, e>>

(* Round to nearest, ties to even: q the kept bits, r the dropped ones, of *)
(* which half is the weight of the first.                                  *)
RoundEven(q, r, half) ==
    IF r > half \/ (r = half /\ q % 2 = 1) THEN q + 1 ELSE q

(* sig < 2^31: shifted by 31 it rounds up to one unit exactly when it is   *)
(* above the half 2^30, and shifted further it rounds to zero.            *)
RoundShift(s, sig, e, shift) ==
    IF shift <= 0 THEN Pack(s, sig * 2^(0 - shift), e + shift)
    ELSE IF shift > 31 THEN Zero(s)
    ELSE IF shift = 31 THEN Pack(s, IF sig > 2^30 THEN 1 ELSE 0, e + shift)
    ELSE Pack(s, RoundEven(sig \div 2^shift, sig % 2^shift, 2^(shift - 1)), e + shift)

RoundBits(s, sig, e, n) ==
    RoundShift(s, sig, e, IF n - SigBits < ExpMin - e THEN ExpMin - e ELSE n - SigBits)

(* The f32 nearest to (-1)^s * sig * 2^e, for 0 <= sig < 2^31; an inexact  *)
(* sig has at least 26 bits and its lowest bit set.                        *)
RoundPack(s, sig, e) ==
    IF sig = 0 THEN Zero(s) ELSE RoundBits(s, sig, e, BitLen(sig))

(* A finite non-zero f32 with its significand moved up to 24 bits.         *)
NormBy(a, k) == <<a[1], a[2] * 2^k, a[3] - k>>
Norm(a) == NormBy(a, SigBits - BitLen(a[2]))

(* `n as f32` and the literal n/d (0.001 is Q(1, 1000))                    *)
F(n) == RoundPack(IF n < 0 THEN 1 ELSE 0, Abs(n), 0)

FNeg(a) == IF IsNaN(a) THEN a ELSE <<1 - a[1], a[2], a[3]>>
FAbs(a) == IF IsNaN(a) THEN a ELSE <<0, a[2], a[3]>>

(* |a| < |b| for a, b not NaN                                              *)
MagLt(a, b) == a[3] < b[3] \/ (a[3] = b[3] /\ a[2] < b[2])

FLt(a, b) ==
    /\ ~IsNaN(a)
    /\ ~IsNaN(b)
    /\ IF a[1] = b[1] THEN (IF a[1] = 0 THEN MagLt(a, b) ELSE MagLt(b, a))
       ELSE a[1] = 1 /\ ~(IsZero(a) /\ IsZero(b))

FLe(a, b) ==
    /\ ~IsNaN(a)
    /\ ~IsNaN(b)
    /\ IF a[1] = b[1] THEN (IF a[1] = 0 THEN ~MagLt(b, a) ELSE ~MagLt(a, b))
       ELSE a[1] = 1 \/ (IsZero(a) /\ IsZero(b))

(* |big| + |small|, big the one with the larger exponent                   *)
AddMags(s, big, small) ==
    RoundPack(s, big[2] * 64 + ShiftRightJam(small[2] * 64, big[3] - small[3]), big[3] - 6)

(* |big| - |small| for |big| > |small|                                     *)
SubMags(s, big, small) ==
    RoundPack(s, big[2] * 64 - ShiftRightJam(small[2] * 64, big[3] - small[3]), big[3] - 6)

FAdd(a, b) ==
    IF IsNaN(a) \/ IsNaN(b) THEN NaN
    ELSE IF IsInfinite(a)
    THEN (IF IsInfinite(b) /\ a[1] # b[1] THEN NaN ELSE a)
    ELSE IF IsInfinite(b) THEN b
    ELSE IF a[1] = b[1]
    THEN (IF MagLt(a, b) THEN AddMags(a[1], b, a) ELSE AddMags(a[1], a, b))
    ELSE IF MagLt(a, b) THEN SubMags(b[1], b, a)
    ELSE IF MagLt(b, a) THEN SubMags(a[1], a, b)
    ELSE PosZero

FSub(a, b) == FAdd(a, FNeg(b))

(* The 48-bit product of two 24-bit significands as <<high 24, low 24>>,   *)
(* from the 12-bit halves: p2 = ah*bh, p1 = ah*bl + al*bh, p0 = al*bl.     *)
MulLow(p1, p0) == (p1 % 4096) * 4096 + p0
MulParts(p2, p1, low) ==
    <<p2 + (p1 \div 4096) + (low \div 16777216), low % 16777216>>
MulHalves(ah, al, bh, bl) ==
    MulParts(ah * bh, ah * bl + al * bh, MulLow(ah * bl + al * bh, al * bl))
MulWide(ma, mb) ==
    MulHalves(ma \div 4096, ma % 4096, mb \div 4096, mb % 4096)

(* The top 30 bits of the product, a lost bit kept in the lowest.          *)
MulSig(p) ==
    IF p[2] % 262144 = 0 \/ (p[2] \div 262144) % 2 = 1
    THEN p[1] * 64 + (p[2] \div 262144)
    ELSE p[1] * 64 + (p[2] \div 262144) + 1

MulNorm(s, a, b) == RoundPack(s, MulSig(MulWide(a[2], b[2])), a[3] + b[3] + 18)

FMul(a, b) ==
    IF IsNaN(a) \/ IsNaN(b) THEN NaN
    ELSE IF IsInfinite(a) \/ IsInfinite(b)
    THEN (IF IsZero(a) \/ IsZero(b) THEN NaN ELSE Inf((a[1] + b[1]) % 2))
    ELSE IF IsZero(a) \/ IsZero(b) THEN Zero((a[1] + b[1]) % 2)
    ELSE MulNorm((a[1] + b[1]) % 2, Norm(a), Norm(b))

(* Long division, seven bits of quotient a step: p = <<quotient, rest>>.   *)
DivStep(p, mb) == <<p[1] * 128 + (p[2] * 128) \div mb, (p[2] * 128) % mb>>
DivSig(p) == p[1] * 2 + (IF p[2] = 0 THEN 0 ELSE 1)
DivQuot(ma, mb) ==
    DivSig(DivStep(DivStep(DivStep(DivStep(<<ma \div mb, ma % mb>>, mb), mb), mb), mb))

DivNorm(s, a, b) == RoundPack(s, DivQuot(a[2], b[2]), a[3] - b[3] - 29)

FDiv(a, b) ==
    IF IsNaN(a) \/ IsNaN(b) THEN NaN
    ELSE IF IsInfinite(a)
    THEN (IF IsInfinite(b) THEN NaN ELSE Inf((a[1] + b[1]) % 2))
    ELSE IF IsInfinite(b) THEN Zero((a[1] + b[1]) % 2)
    ELSE IF IsZero(b)
    THEN (IF IsZero(a) THEN NaN ELSE Inf((a[1] + b[1]) % 2))
    ELSE IF IsZero(a) THEN Zero((a[1] + b[1]) % 2)
    ELSE DivNorm((a[1] + b[1]) % 2, Norm(a), Norm(b))

Q(n, d) == FDiv(F(n), F(d))

RECURSIVE ISqrtIn(_, _, _)
ISqrtIn(lo, hi, n) ==
    IF lo >= hi THEN lo
    ELSE IF ((lo + hi + 1) \div 2) * ((lo + hi + 1) \div 2) <= n
    THEN ISqrtIn((lo + hi + 1) \div 2, hi, n)
    ELSE ISqrtIn(lo, ((lo + hi + 1) \div 2) - 1, n)

(* The integer square root of 0 <= n < 2^31                                *)
ISqrt(n) == ISqrtIn(0, IF n < 46340 THEN n ELSE 46340, n)

(* k more bits of a square root: root the bits so far, rest what is left   *)
(* of the radicand.                                                        *)
RECURSIVE SqrtBits(_, _, _)
SqrtBits(root, rest, k) ==
    IF k = 0 THEN root * 2 + (IF rest = 0 THEN 0 ELSE 1)
    ELSE IF rest * 4 >= root * 4 + 1
    THEN SqrtBits(root * 2 + 1, rest * 4 - (root * 4 + 1), k - 1)
    ELSE SqrtBits(root * 2, rest * 4, k - 1)

SqrtFrom(m, root) == SqrtBits(root, m * 64 - root * root, 11)

(* The root of m * 2^e for e even and 2^23 <= m < 2^25                     *)
SqrtEven(m, e) == RoundPack(0, SqrtFrom(m, ISqrt(m * 64)), (e - 30) \div 2)

SqrtNorm(a) ==
    IF a[3] % 2 = 0 THEN SqrtEven(a[2], a[3]) ELSE SqrtEven(a[2] * 2, a[3] - 1)

(* f32::sqrt, correctly rounded; NaN for a negative argument               *)
FSqrt(a) ==
    IF IsNaN(a) THEN NaN
    ELSE IF IsZero(a) THEN a
    ELSE IF a[1] = 1 THEN NaN
    ELSE IF IsInfinite(a) THEN a
    ELSE SqrtNorm(Norm(a))

(* powi(5): a * (a^2)^2                                                    *)
FPow4(a2) == FMul(a2, a2)
FPow5(a) == FMul(a, FPow4(FMul(a, a)))

----------------------------------------------------------------------------
(* Vec3 (linalg.rs)                                                        *)

Vec3(x, y, z) == [x |-> x, y |-> y, z |-> z]
V(x, y, z) == Vec3(F(x), F(y), F(z))
VecOrigin == V(0, 0, 0)
UnitY == V(0, 1, 0)

VNeg(v) == Vec3(FNeg(v.x), FNeg(v.y), FNeg(v.z))
VAdd(v, w) == Vec3(FAdd(v.x, w.x), FAdd(v.y, w.y), FAdd(v.z, w.z))
VSub(v, w) == Vec3(FSub(v.x, w.x), FSub(v.y, w.y), FSub(v.z, w.z))
VAddS(v, s) == Vec3(FAdd(v.x, s), FAdd(v.y, s), FAdd(v.z, s))
Dot(v, w) == FAdd(FAdd(FMul(v.x, w.x), FMul(v.y, w.y)), FMul(v.z, w.z))
VMulS(v, s) == Vec3(FMul(v.x, s), FMul(v.y, s), FMul(v.z, s))
VDivS(v, s) == Vec3(FDiv(v.x, s), FDiv(v.y, s), FDiv(v.z, s))

IsTiny(v, tolerance) ==
    /\ FLt(FAbs(v.x), tolerance)
    /\ FLt(FAbs(v.y), tolerance)
    /\ FLt(FAbs(v.z), tolerance)

Cross(v, w) ==
    Vec3(FSub(FMul(v.y, w.z), FMul(v.z, w.y)),
         FSub(FMul(v.z, w.x), FMul(v.x, w.z)),
         FSub(FMul(v.x, w.y), FMul(v.y, w.x)))

Reflect(v, normal) == VAdd(v, VMulS(normal, FMul(Dot(v, normal), F(-2))))

Length(v) == FSqrt(FAdd(FAdd(FMul(v.x, v.x), FMul(v.y, v.y)), FMul(v.z, v.z)))

Unit(v) == VDivS(v, Length(v))

(* rng.gen_range(min..=max) on fVec builds UniformFloat::new_inclusive(min, *)
(* max) and samples it once. The generator's word gives k, its top 23      *)
(* bits, and the sample is (k * 2^-23) * scale + min. The scale starts as  *)
(* (max - min) / max_rand, max_rand = 1 - 2^-23 being the largest value of *)
(* k * 2^-23, and is lowered one float at a time (to_bits() - 1) while     *)
(* scale * max_rand + min is above max.                                    *)
UnitFloat(k) == RoundPack(0, k, -23)
MaxRand == FSub(F(1), UnitFloat(1))
PrevFloat(a) ==
    IF a[2] = 2^(SigBits - 1) /\ a[3] > ExpMin
    THEN <<a[1], 2^SigBits - 1, a[3] - 1>>
    ELSE <<a[1], a[2] - 1, a[3]>>
RECURSIVE LowerScale(_, _, _)
LowerScale(scale, min, max) ==
    IF FLt(max, FAdd(FMul(scale, MaxRand), min))
    THEN LowerScale(PrevFloat(scale), min, max)
    ELSE scale
RangeScale(min, max) == LowerScale(FDiv(FSub(max, min), MaxRand), min, max)
GenRangeInclusive(k, min, max) ==
    FAdd(FMul(UnitFloat(k), RangeScale(min, max)), min)
(* gen_range and new_inclusive panic instead of sampling: on an empty      *)
(* range (min > max, or a NaN bound), on a bound that is not finite, and   *)
(* when the first scale is not finite.                                     *)
GenRangePanics(min, max) ==
    \/ ~FLe(min, max)
    \/ ~IsFinite(min)
    \/ ~IsFinite(max)
    \/ ~IsFinite(FDiv(FSub(max, min), MaxRand))

(* Vec3::random: one gen_range(min..=max) per component, w the three k.    *)
Vec3Random(w, min, max) ==
    Vec3(GenRangeInclusive(w[1], min, max),
         GenRangeInclusive(w[2], min, max),
         GenRangeInclusive(w[3], min, max))

IsZeroVec(v) == IsZero(v.x) /\ IsZero(v.y) /\ IsZero(v.z)

(* reflectance (Schlick): r0^2 + (1 - r0^2) * (1 - cos)^5                  *)
ReflectanceR0(r0_squared, cos) ==
    FAdd(r0_squared, FMul(FSub(F(1), r0_squared), FPow5(FSub(F(1), cos))))

Square(a) == FMul(a, a)

Reflectance(cos, ior) ==
    ReflectanceR0(Square(FDiv(FSub(F(1), ior), FAdd(F(1), ior))), cos)

(* Vec3::refract.  rand is the value rng.gen_range(0.0..1.0) returns if   *)
(* the draw is made; drew tells whether the generator was advanced.        *)
(* RefractSide: c_ior, c_normal and cos_theta by the sign of I * normal.   *)
RefractSide(IdotN, normal, ior) ==
    IF FLt(IdotN, F(0))
    THEN [c_ior |-> FDiv(F(1), ior), c_normal |-> normal,
          cos_theta |-> FNeg(IdotN)]
    ELSE [c_ior |-> ior, c_normal |-> VNeg(normal), cos_theta |-> IdotN]

(* The total-internal-reflection test: c_ior * sin_theta > 1.0             *)
IsTotalReflection(c_ior, sin_theta_squared) ==
    FLt(F(1), FMul(c_ior, FSqrt(FAbs(sin_theta_squared))))

RefractSinDrawFirst(I, c, sin_theta_squared, ior, rand) ==
    IF IsTotalReflection(c.c_ior, sin_theta_squared)
    THEN [dir |-> Reflect(I, c.c_normal), drew |-> TRUE]
    ELSE IF FLt(rand, Reflectance(c.cos_theta, ior))
    THEN [dir |-> Reflect(I, c.c_normal), drew |-> TRUE]
    ELSE LET A == VMulS(VAdd(I, VMulS(c.c_normal, c.cos_theta)), c.c_ior)
             B == VMulS(c.c_normal,
                        FNeg(FSqrt(FAbs(FSub(F(1),
                             FMul(FMul(c.c_ior, c.c_ior),
                                  sin_theta_squared))))))
         IN  [dir |-> VAdd(A, B), drew |-> TRUE]

RefractSin(I, c, sin_theta_squared, ior, rand) ==
    IF IsTotalReflection(c.c_ior, sin_theta_squared)
    THEN [dir |-> Reflect(I, c.c_normal), drew |-> FALSE]
    ELSE IF FLt(rand, Reflectance(c.cos_theta, ior))
    THEN [dir |-> Reflect(I, c.c_normal), drew |-> TRUE]
    ELSE LET A == VMulS(VAdd(I, VMulS(c.c_normal, c.cos_theta)), c.c_ior)
             B == VMulS(c.c_normal,
                        FNeg(FSqrt(FAbs(FSub(F(1),
                             FMul(FMul(c.c_ior, c.c_ior),
                                  sin_theta_squared))))))
         IN  [dir |-> VAdd(A, B), drew |-> TRUE]

RefractCos(I, c, ior, rand) ==
    RefractSin(I, c, FSub(F(1), FMul(c.cos_theta, c.cos_theta)), ior, rand)

RefractUnit(I, normal, ior, rand) ==
    RefractCos(I, RefractSide(Dot(I, normal), normal, ior), ior, rand)

Refract(self, normal, ior, rand) == RefractUnit(Unit(self), normal, ior, rand)

----------------------------------------------------------------------------
(* Color and Pixel (image.rs)                                              *)

Color(r, g, b) == [r |-> r, g |-> g, b |-> b]
Black == Color(F(0), F(0), F(0))
White == Color(F(1), F(1), F(1))
U8Max == 255
FromRgb(r, g, b) == Color(Q(r, U8Max), Q(g, U8Max), Q(b, U8Max))

CAdd(c, e) == Color(FAdd(c.r, e.r), FAdd(c.g, e.g), FAdd(c.b, e.b))
CMul(c, e) == Color(FMul(c.r, e.r), FMul(c.g, e.g), FMul(c.b, e.b))
CMulS(c, s) == Color(FMul(c.r, s), FMul(c.g, s), FMul(c.b, s))
Gamma2(c) == Color(FSqrt(c.r), FSqrt(c.g), FSqrt(c.b))

(* `as u8`: NaN becomes 0, the value is truncated and saturates.           *)
AsU8(a) ==
    IF IsNaN(a) \/ a[1] = 1 THEN 0
    ELSE IF a[3] >= 0 THEN U8Max
    ELSE IF a[3] < -30 THEN 0
    ELSE IF a[2] \div 2^(0 - a[3]) > U8Max THEN U8Max
    ELSE a[2] \div 2^(0 - a[3])

PixelFrom(col) ==
    [r |-> AsU8(FMul(col.r, F(U8Max))),
     g |-> AsU8(FMul(col.g, F(U8Max))),
     b |-> AsU8(FMul(col.b, F(U8Max)))]

None == [some |-> FALSE]
Some(v) == [some |-> TRUE, val |-> v]

(* Image::new, enforce, px / px_mut.  pixels is the Vec<Pixel>, element i  *)
(* of the Vec at position i + 1 of the sequence; px returns the index of   *)
(* the cell it refers to.                                                  *)
ImageNew(width, height) ==
    [width |-> width, height |-> height,
     pixels |-> [i \in 1..(width * height) |-> PixelFrom(Black)]]

EnforceInclusive(img, x, y) == x <= img.width /\ y <= img.height

Enforce(img, x, y) == x < img.width /\ y < img.height

VecGet(pixels, i) == IF i < Len(pixels) THEN Some(i) ELSE None

Px(img, x, y) ==
    IF Enforce(img, x, y) THEN VecGet(img.pixels, y * img.width + x) ELSE None

----------------------------------------------------------------------------
(* Ray and HitResult (tracer.rs)                                           *)

RayMinDefault == Q(1, 1000)

Ray(origin, direction, min, max) ==
    [origin |-> origin, direction |-> direction, min |-> min, max |-> max]

RayNew(origin, direction) == Ray(origin, direction, RayMinDefault, PosInf)

RayAt(ray, pos) == VAdd(ray.origin, VMulS(ray.direction, pos))

HitResult(intersect, normal, at) ==
    [intersect |-> intersect, normal |-> normal, at |-> at]

IsOutsideOrGrazing(hit, ray) == FLe(Dot(hit.normal, ray.direction), F(0))

IsOutside(hit, ray) == FLt(Dot(hit.normal, ray.direction), F(0))

----------------------------------------------------------------------------
(* Sphere and Background as hittables (hit.rs, material.rs)                *)

Sphere(origin, radius, material) ==
    [kind |-> "Sphere", origin |-> origin, radius |-> radius,
     material |-> material]

Background(color) == [kind |-> "Background", color |-> color]

SphereQuadZ(sphere, ray, z) ==
    [a |-> Dot(ray.direction, ray.direction),
     half_b |-> Dot(z, ray.direction),
     c |-> FSub(Dot(z, z), FMul(sphere.radius, sphere.radius))]

SphereQuad(sphere, ray) == SphereQuadZ(sphere, ray, VSub(ray.origin, sphere.origin))

Discriminant(q) == FSub(FMul(q.half_b, q.half_b), FMul(q.a, q.c))

InRange(ray, t) == FLe(ray.min, t) /\ FLe(t, ray.max)

SphereHitPoint(sphere, intersect, t) ==
    Some(HitResult(intersect,
                   VDivS(VSub(intersect, sphere.origin), sphere.radius), t))

SphereHitAt(sphere, ray, t) == SphereHitPoint(sphere, RayAt(ray, t), t)

SphereHitRootsFarFirst(sphere, ray, t_near, t_far) ==
    IF InRange(ray, t_far) THEN SphereHitAt(sphere, ray, t_far)
    ELSE IF InRange(ray, t_near) THEN SphereHitAt(sphere, ray, t_near)
    ELSE None

(* The choice between the roots: the near one first, then the far one.     *)
SphereHitRoots(sphere, ray, t_near, t_far) ==
    IF InRange(ray, t_near) THEN SphereHitAt(sphere, ray, t_near)
    ELSE IF InRange(ray, t_far) THEN SphereHitAt(sphere, ray, t_far)
    ELSE None

SphereHitSqrt(sphere, ray, q, disc_sqrt) ==
    SphereHitRoots(sphere, ray,
                   FDiv(FSub(FNeg(q.half_b), disc_sqrt), q.a),
                   FDiv(FAdd(FNeg(q.half_b), disc_sqrt), q.a))

SphereHitDisc(sphere, ray, q, disc) ==
    IF FLt(disc, F(0)) THEN None
    ELSE SphereHitSqrt(sphere, ray, q, FSqrt(disc))

SphereHitQuad(sphere, ray, q) == SphereHitDisc(sphere, ray, q, Discriminant(q))

SphereHit(sphere, ray) == SphereHitQuad(sphere, ray, SphereQuad(sphere, ray))

BackgroundHitAnyMax(bg, ray) ==
    Some(HitResult(VecOrigin, VecOrigin, ray.max))

BackgroundHit(bg, ray) ==
    IF IsInfinite(ray.max)
    THEN Some(HitResult(VecOrigin, VecOrigin, ray.max))
    ELSE None

ObjHit(obj, ray) ==
    IF obj.kind = "Sphere" THEN SphereHit(obj, ray) ELSE BackgroundHit(obj, ray)

(* Scene::hit: the scan over objects[i..], with the running ray and the    *)
(* best hit so far; the result pairs the hit with the object's position.   *)
RECURSIVE SceneScan(_, _, _, _)
RECURSIVE SceneTake(_, _, _, _, _)

SceneTakeKeepMax(objects, i, temp_ray, hit_res, res) ==
    IF res.some
    THEN SceneScan(objects, i + 1, temp_ray, Some([hit |-> res.val, obj |-> i]))
    ELSE SceneScan(objects, i + 1, temp_ray, hit_res)

SceneScan(objects, i, temp_ray, hit_res) ==
    IF i > Len(objects) THEN hit_res
    ELSE SceneTake(objects, i, temp_ray, hit_res, ObjHit(objects[i], temp_ray))

(* The match on obj.hit(&temp_ray) for objects[i], then the rest.          *)
SceneTake(objects, i, temp_ray, hit_res, res) ==
    IF res.some
    THEN SceneScan(objects, i + 1, [temp_ray EXCEPT !.max = res.val.at],
                   Some([hit |-> res.val, obj |-> i]))
    ELSE SceneScan(objects, i + 1, temp_ray, hit_res)

SceneHit(objects, ray) == SceneScan(objects, 1, ray, None)

(* Scene::new and Scene::add: objects starts empty and add pushes obj at   *)
(* the end, whatever the scene already holds.                              *)
SceneNew == <<>>
SceneAdd(objects, obj) == Append(objects, obj)

----------------------------------------------------------------------------
(* Materials (material.rs).  A bounce returns the attenuation col, the     *)
(* optional continuation ray, whether it advanced its generator (drew) and *)
(* units, the vectors it passed to Vec3::unit, in call order.              *)

Diffuse(color) == [kind |-> "Diffuse", color |-> color]
Reflective(color, fuzziness) ==
    [kind |-> "Reflective", color |-> color, fuzziness |-> fuzziness]
Dielectric(ior) == [kind |-> "Dielectric", ior |-> ior]

BounceResult(col, ray, drew, units) ==
    [col |-> col, ray |-> ray, drew |-> drew, units |-> units]

(* rand_on_unit_sphere: x is one Vec3::random(rng, -1.0, 1.0); the loop    *)
(* ends on the first x with x*x <= 1 and returns x.unit().                 *)
SphereSampleAccepted(x) == FLe(Dot(x, x), F(1))

TinyDiffuse == Q(1, 10000)
TinyReflective == Q(1, 1000)
FuzzThreshold == Q(1, 100)

BackgroundBounce(bg, ray, hit) ==
    BounceResult(
        CMulS(bg.color, FDiv(FAdd(Unit(ray.direction).y, F(1)), F(2))),
        None, FALSE, <<ray.direction>>)

DiffuseScatter(mat, hit, x, scatter_dir, tiny) ==
    BounceResult(
        mat.color,
        Some(RayNew(hit.intersect,
                    IF tiny THEN hit.normal ELSE Unit(scatter_dir))),
        TRUE,
        IF tiny THEN <<x>> ELSE <<x, scatter_dir>>)

DiffuseScatterDir(mat, hit, x, scatter_dir) ==
    DiffuseScatter(mat, hit, x, scatter_dir, IsTiny(scatter_dir, TinyDiffuse))

DiffuseBounce(mat, ray, hit, x) ==
    IF ~IsOutside(hit, ray) THEN BounceResult(Black, None, FALSE, <<>>)
    ELSE DiffuseScatterDir(mat, hit, x, VAdd(hit.normal, Unit(x)))

(* The branch `if self.fuzziness < 0.01`: rand_dir is the sampled unit     *)
(* vector, fuzzy_dir the perturbed reflection.                             *)
ReflectiveFuzzyDir(mat, ray, hit, x, rand_dir, fuzzy_dir) ==
    IF ~FLe(Dot(fuzzy_dir, hit.normal), F(0))
    THEN BounceResult(mat.color, Some(RayNew(hit.intersect, fuzzy_dir)),
                      TRUE, <<ray.direction, x>>)
    ELSE IF IsTiny(fuzzy_dir, TinyReflective)
    THEN BounceResult(mat.color, Some(RayNew(hit.intersect, hit.normal)),
                      TRUE, <<ray.direction, x>>)
    ELSE BounceResult(mat.color,
                      Some(RayNew(hit.intersect,
                                  Unit(VAdd(hit.normal, rand_dir)))),
                      TRUE, <<ray.direction, x, VAdd(hit.normal, rand_dir)>>)

ReflectiveFuzzy(mat, ray, hit, x, reflected_dir, rand_dir) ==
    ReflectiveFuzzyDir(mat, ray, hit, x, rand_dir,
                       VAdd(reflected_dir, VMulS(rand_dir, mat.fuzziness)))

ReflectiveReflected(mat, ray, hit, x, reflected_dir) ==
    IF FLt(mat.fuzziness, FuzzThreshold)
    THEN ReflectiveFuzzy(mat, ray, hit, x, reflected_dir, Unit(x))
    ELSE BounceResult(mat.color, Some(RayNew(hit.intersect, reflected_dir)),
                      FALSE, <<ray.direction>>)

ReflectiveBounce(mat, ray, hit, x) ==
    IF ~IsOutside(hit, ray) THEN BounceResult(Black, None, FALSE, <<>>)
    ELSE ReflectiveReflected(mat, ray, hit, x,
                             Reflect(Unit(ray.direction), hit.normal))

DielectricRefracted(hit, ray, refracted) ==
    BounceResult(White, Some(RayNew(hit.intersect, refracted.dir)),
                 refracted.drew, <<ray.direction>>)

DielectricBounce(mat, ray, hit, rand) ==
    DielectricRefracted(hit, ray,
                        Refract(ray.direction, hit.normal, mat.ior, rand))

(* obj.material().bounce(ray, hit): x and rand are what the material's     *)
(* generator yields if it is asked.                                        *)
Bounce(obj, ray, hit, x, rand) ==
    IF obj.kind = "Background" THEN BackgroundBounce(obj, ray, hit)
    ELSE IF obj.material.kind = "Diffuse"
    THEN DiffuseBounce(obj.material, ray, hit, x)
    ELSE IF obj.material.kind = "Reflective"
    THEN ReflectiveBounce(obj.material, ray, hit, x)
    ELSE DielectricBounce(obj.material, ray, hit, rand)

(* The bounce enters the rejection loop of rand_on_unit_sphere.            *)
NeedsSphereSample(obj, ray, hit) ==
    /\ obj.kind = "Sphere"
    /\ IsOutside(hit, ray)
    /\ \/ obj.material.kind = "Diffuse"
       \/ /\ obj.material.kind = "Reflective"
          /\ FLt(obj.material.fuzziness, FuzzThreshold)

----------------------------------------------------------------------------
(* Camera (tracer.rs)                                                      *)

(* fVec::tan((fov * PI) / 360.0), tabulated for the fields of view used:   *)
(* 90 degrees in the cameras below and the 45 degrees of main.rs.          *)
TanHalfFov(fov) ==
    CASE fov = 90 -> F(1)
      [] fov = 45 -> <<0, 13898701, -25>>

CameraUp(look_from, look_at, width, height, fov, aperture, dir, right_arg, temp_right, up_arg, focus_distance, v_width) ==
    [origin |-> look_from,
     direction |-> VMulS(dir, focus_distance),
     viewport_width |-> v_width,
     viewport_height |-> FMul(FDiv(F(height), F(width)), v_width),
     rasterize_width |-> width,
     rasterize_height |-> height,
     temp_right |-> temp_right,
     temp_up |-> Unit(up_arg),
     aperture |-> aperture,
     units |-> <<VSub(look_at, look_from), right_arg, up_arg>>]

CameraFocus(look_from, look_at, width, height, fov, aperture, dir, right_arg, temp_right, focus_distance) ==
    CameraUp(look_from, look_at, width, height, fov, aperture, dir,
             right_arg, temp_right, Cross(dir, temp_right), focus_distance,
             FMul(FMul(TanHalfFov(fov), focus_distance), F(2)))

CameraRight(look_from, look_at, width, height, fov, aperture, dir, right_arg) ==
    CameraFocus(look_from, look_at, width, height, fov, aperture, dir,
                right_arg, Unit(right_arg), Length(VSub(look_at, look_from)))

CameraDir(look_from, look_at, width, height, fov, aperture, dir) ==
    CameraRight(look_from, look_at, width, height, fov, aperture, dir,
                Cross(UnitY, dir))

(* Camera::new; units lists the vectors it passes to Vec3::unit.           *)
CameraNew(look_from, look_at, width, height, fov, aperture) ==
    CameraDir(look_from, look_at, width, height, fov, aperture,
              Unit(VSub(look_at, look_from)))

RayFromTo(from, to) == RayNew(from, VSub(to, from))

RayThrough(cam, u, v, offset_origin, offset_target) ==
    LET u_step == FDiv(cam.viewport_width, F(cam.rasterize_width))
        v_step == FDiv(cam.viewport_height, F(cam.rasterize_height))
        top_left ==
            VAdd(VAdd(VAdd(cam.origin, cam.direction),
                      VMulS(cam.temp_right, FDiv(cam.viewport_width, F(-2)))),
                 VMulS(cam.temp_up, FDiv(cam.viewport_height, F(2))))
        from ==
            VAdd(VAdd(cam.origin,
                      VMulS(cam.temp_up, FMul(offset_origin[1], cam.aperture))),
                 VMulS(cam.temp_right, FMul(offset_origin[2], cam.aperture)))
        to ==
            VAdd(VAdd(top_left,
                      VMulS(cam.temp_right,
                            FMul(u_step, FAdd(F(u), offset_target[1])))),
                 VMulS(VNeg(cam.temp_up),
                       FMul(v_step, FAdd(F(v), offset_target[2]))))
    IN  RayFromTo(from, to)

(* rand_on_unit_disc: x is one pair of gen_range(0.0..1.0) draws; the loop *)
(* ends on the first pair with x.0^2 + x.1^2 <= 1.                         *)
DiscSampleAccepted(x) ==
    FLe(FAdd(FMul(x[1], x[1]), FMul(x[2], x[2])), F(1))

FallbackColor == FromRgb(245, 66, 129)

----------------------------------------------------------------------------
(* Bounds and input sets of the render machine                             *)

MaxWidth == 2
MaxHeight == 2
MaxSamples == 2
MaxBounces == 2

(* The rasters and sample counts rendered: empty, single and the largest.  *)
Widths == {0, 1, MaxWidth}
Heights == {0, 1, MaxHeight}
SampleCounts == {0, 1, MaxSamples}

SkyColor == FromRgb(156, 233, 255)
Grey == Color(Q(3, 10), Q(3, 10), Q(3, 10))
Cream == Color(F(1), F(1), Q(9, 10))

Sky == Background(SkyColor)
Ball(material) == Sphere(V(0, 0, 3), F(1), material)

(* Scenes as main.rs builds them: spheres appended, the Background last;   *)
(* and scenes with the Background first or absent.                         *)
Scenes ==
    { <<Ball(Diffuse(Grey)), Sky>>,
      <<Sky, Ball(Reflective(Cream, F(0)))>>,
      <<Ball(Reflective(Cream, Q(1, 2))), Sky>>,
      <<Ball(Dielectric(Q(4, 3))), Sky>>,
      <<Ball(Diffuse(Grey))>> }

(* Camera::new arguments <<look_from, look_at, fov, aperture>>: looking    *)
(* down +z at the ball, and looking straight up along the world-up axis.   *)
CameraArgs ==
    { <<V(0, 0, 0), V(0, 0, 1), 90, F(0)>>,
      <<V(0, 0, 0), V(0, 1, 0), 90, F(0)>> }

(* The renders checked: every scene under the camera that looks at the     *)
(* ball, and the first scene under the camera that looks straight up.      *)
Setups ==
    { su \in Scenes \X CameraArgs :
        su[2][2] = V(0, 0, 1) \/ su[1] = <<Ball(Diffuse(Grey)), Sky>> }

(* Values the generators return: jitter pairs in [0,1)^2, lens pairs in    *)
(* [0,1)^2, cube samples in [-1,1]^3 and Schlick draws in [0,1).           *)
JitterDraws == { <<Q(1, 2), Q(1, 2)>> }
(* rng.gen_range(0.0..1.0): values of the half-open interval [0, 1).       *)
UnitRangeDraws == { Q(1, 2), Q(9, 10) }
(* The pair rand_on_unit_disc draws: both coordinates from 0.0..1.0.       *)
LensDraws == { <<u, u>> : u \in UnitRangeDraws }
(* Vec3::random(rng, -1.0, 1.0) for triples of generator outputs: samples  *)
(* a step of 2^-23 off the axis towards -z and +z, an oblique one, the one *)
(* nearest the origin, and the corner (1, 1, 1).                           *)
CubeWords ==
    { <<4194304, 4194304, 0>>, <<4194304, 4194304, 8388607>>,
      <<8220800, 4194304, 3019899>>, <<4194304, 4194304, 4194304>>,
      <<8388607, 8388607, 8388607>> }
CubeDraws ==
    IF GenRangePanics(F(-1), F(1)) THEN {}
    ELSE { Vec3Random(w, F(-1), F(1)) : w \in CubeWords }
SchlickDraws == { F(0), Q(1, 2) }

----------------------------------------------------------------------------
(* The render machine: Renderer::render and Renderer::colorize_ray         *)

VARIABLES
    scene,        \* Scene.objects
    cam,          \* the Camera
    samples,      \* Renderer.samples
    bounces,      \* Renderer.bounces
    img,          \* the Image under construction
    x, y,         \* the pixel loop's position
    s,            \* samples taken for the current pixel
    sum,          \* the current pixel's accumulated Color
    pc,           \* where the render is
    ray,          \* the ray of the innermost colorize_ray call
    depth,        \* its `bounces` argument
    stack,        \* attenuations of the suspended colorize_ray calls
    pending,      \* the hit whose bounce is sampling a direction
    result,       \* the value the innermost finished call returned
    rng_last,     \* the values a generator returned last
    path,         \* history: the calls of the current colorize_ray tree
    hit_queries,  \* history: Scene::hit calls of this render
    bounce_calls, \* history: Material::bounce calls of this render
    tree_queries, \* history: Scene::hit calls since render called colorize_ray
    tree_bounces, \* history: bounce calls since render called colorize_ray
    written,      \* history: the pixels written, in order, with values
    unit_zero,    \* history: Vec3::unit was called on the zero vector
    px_failed,    \* history: px_mut returned None in the loop
    printed,      \* history: the rows whose progress line reached stdout
    tick,         \* flips with every step the render takes
    call          \* a single call of a pure function: its input and output

vars ==
    <<scene, cam, samples, bounces, img, x, y, s, sum, pc, ray, depth, stack,
      pending, result, rng_last, path, hit_queries, bounce_calls,
      tree_queries, tree_bounces, written, unit_zero, px_failed,
      printed, tick,
      call>>

render_vars ==
    <<scene, cam, samples, bounces, img, x, y, s, sum, pc, ray, depth, stack,
      pending, result, rng_last, path, hit_queries, bounce_calls,
      tree_queries, tree_bounces, written, unit_zero, px_failed,
      printed, tick>>

config == <<scene, cam, samples, bounces, call>>
history ==
    <<hit_queries, bounce_calls, written, unit_zero, px_failed, printed>>
tree == <<tree_queries, tree_bounces>>

NoRay == RayNew(VecOrigin, VecOrigin)

AnyZero(units) == \E i \in 1..Len(units) : IsZeroVec(units[i])

(* `for y in 0..height {`: the head of row cy, or the return of the image. *)
RowFrom(cy, height) ==
    IF cy < height THEN [pc |-> "row", x |-> 0, y |-> cy]
    ELSE [pc |-> "done", x |-> 0, y |-> height]

LoopFromSkipsLastColumn(cx, cy, width, height) ==
    IF cx + 1 < width THEN [pc |-> "pixel", x |-> cx, y |-> cy]
    ELSE RowFrom(cy + 1, height)

(* `for x in 0..width {`: column cx of row cy, or the head of the next     *)
(* row once the row is finished.                                           *)
LoopFrom(cx, cy, width, height) ==
    IF cx < width THEN [pc |-> "pixel", x |-> cx, y |-> cy]
    ELSE RowFrom(cy + 1, height)

Init ==
    \E su \in Setups,
       w \in Widths, h \in Heights,
       n \in SampleCounts, b \in 0..MaxBounces :
    \E camera \in {CameraNew(su[2][1], su[2][2], w, h, su[2][3], su[2][4])},
       start \in {RowFrom(0, h)} :
            /\ scene = su[1]
            /\ cam = camera
            /\ samples = n
            /\ bounces = b
            /\ img = ImageNew(w, h)
            /\ x = start.x
            /\ y = start.y
            /\ pc = start.pc
            /\ s = 0
            /\ sum = Black
            /\ ray = NoRay
            /\ depth = 0
            /\ stack = <<>>
            /\ pending = None
            /\ result = Black
            /\ rng_last = <<>>
            /\ path = <<>>
            /\ hit_queries = 0
            /\ bounce_calls = 0
            /\ tree_queries = 0
            /\ tree_bounces = 0
            /\ written = <<>>
            /\ unit_zero = AnyZero(camera.units)
            /\ px_failed = FALSE
            /\ printed = <<>>
            /\ tick = FALSE
            /\ call = [op |-> "none"]

(* print!("\rCurrent line: {}", y); stdout().flush().unwrap();  The write  *)
(* to standard output succeeds and the row is entered, or it fails and the *)
(* unwrap panics, which ends the render.                                   *)
PrintLine ==
    /\ pc = "row"
    /\ tick' = ~tick
    /\ \E ok \in BOOLEAN, next \in {LoopFrom(0, y, img.width, img.height)} :
        /\ printed' = IF ok THEN Append(printed, y) ELSE printed
        /\ x' = IF ok THEN next.x ELSE x
        /\ y' = IF ok THEN next.y ELSE y
        /\ pc' = IF ok THEN next.pc ELSE "panic"
    /\ UNCHANGED <<config, img, s, sum, ray, depth, stack, pending, result,
                   rng_last, path, hit_queries, bounce_calls, tree, written,
                   unit_zero, px_failed>>

(* let mut sum = Color::black(); let px = img.px_mut(x, y).unwrap();       *)
(* unwrap panics on None, which ends the render.                           *)
BeginPixel ==
    /\ pc = "pixel"
    /\ tick' = ~tick
    /\ sum' = Black
    /\ s' = 0
    /\ \E px \in {Px(img, x, y)} :
        /\ px_failed' = (px_failed \/ ~px.some)
        /\ pc' = IF ~px.some THEN "panic"
                 ELSE IF samples > 0 THEN "sample" ELSE "write"
    /\ UNCHANGED <<config, img, x, y, ray, depth, stack, pending, result,
                   rng_last, path, hit_queries, bounce_calls, tree, written,
                   unit_zero, printed>>

(* rnum, rnum2 = rng.gen_range(0.0..1.0)                                   *)
DrawJitter ==
    /\ pc = "sample"
    /\ tick' = ~tick
    /\ \E j \in JitterDraws :
        /\ rng_last' = j
        /\ pending' = Some([jitter |-> j])
    /\ pc' = "lens"
    /\ UNCHANGED <<config, img, x, y, s, sum, ray, depth, stack, result, path,
                   history, tree>>

(* rand_on_unit_disc: a pair outside the disc is drawn again               *)
LensReject ==
    /\ pc = "lens"
    /\ tick' = ~tick
    /\ \E d \in LensDraws :
        /\ ~DiscSampleAccepted(d)
        /\ rng_last' = d
    /\ UNCHANGED <<config, img, x, y, s, sum, pc, ray, depth, stack, pending,
                   result, path, history, tree>>

(* The pairs that end the loop of rand_on_unit_disc: its possible results. *)
LensResults == { d \in LensDraws : DiscSampleAccepted(d) }

(* rand_on_unit_disc returns; cam.ray_through; colorize_ray is entered     *)
LensAccept ==
    /\ pc = "lens"
    /\ tick' = ~tick
    /\ \E d \in LensResults :
        /\ rng_last' = d
        /\ ray' = RayThrough(cam, x, y, d, pending.val.jitter)
    /\ depth' = bounces
    /\ stack' = <<>>
    /\ path' = <<>>
    /\ tree_queries' = 0
    /\ tree_bounces' = 0
    /\ pending' = None
    /\ pc' = "trace"
    /\ UNCHANGED <<config, img, x, y, s, sum, result, history>>

(* One call colorize_ray(r, d): how it ended, the color it contributed     *)
(* and the values its material drew.                                       *)
PathEntry(r, d, kind, col, v, rand) ==
    [ray |-> r, depth |-> d, kind |-> kind, col |-> col, x |-> v,
     rand |-> rand]

(* if bounces <= 0                                                         *)
ExhaustedBelowZero(d) == d < 0

Exhausted(d) == d <= 0

ReturnAddsPixelSum(c, kind, v, rand) ==
    /\ result' = CAdd(c, sum)
    /\ path' = Append(path, PathEntry(ray, depth, kind, c, v, rand))
    /\ pc' = "unwind"
    /\ UNCHANGED <<ray, depth, stack>>

(* colorize_ray returns c without recursing                                *)
Return(c, kind, v, rand) ==
    /\ result' = c
    /\ path' = Append(path, PathEntry(ray, depth, kind, c, v, rand))
    /\ pc' = "unwind"
    /\ UNCHANGED <<ray, depth, stack>>

(* The tail of colorize_ray once bounce has returned b:                    *)
(*   Some(ray) => col * self.colorize_ray(scene, &b, bounces - 1)          *)
(*   None      => col                                                      *)
AfterBounce(b, v, rand) ==
    /\ bounce_calls' = bounce_calls + 1
    /\ tree_bounces' = tree_bounces + 1
    /\ unit_zero' = (unit_zero \/ AnyZero(b.units))
    /\ IF b.ray.some
       THEN /\ stack' = Append(stack, b.col)
            /\ ray' = b.ray.val
            /\ depth' = depth - 1
            /\ path' = Append(path, PathEntry(ray, depth, "continue", b.col,
                                               v, rand))
            /\ pc' = "trace"
            /\ UNCHANGED result
       ELSE Return(b.col, "terminal", v, rand)

(* colorize_ray is entered with (ray, depth): the budget test, the scene   *)
(* query and, unless the material samples a direction first, the bounce    *)
Trace ==
    /\ pc = "trace"
    /\ tick' = ~tick
    /\ IF Exhausted(depth)
       THEN /\ Return(FallbackColor, "exhausted", VecOrigin, F(0))
            /\ UNCHANGED <<pending, rng_last, history, tree>>
       ELSE \E res \in {SceneHit(scene, ray)} :
                /\ hit_queries' = hit_queries + 1
                /\ tree_queries' = tree_queries + 1
                /\ UNCHANGED <<written, px_failed, printed>>
                /\ IF ~res.some
                   THEN /\ Return(Black, "miss", VecOrigin, F(0))
                        /\ UNCHANGED <<pending, rng_last, bounce_calls,
                                       tree_bounces, unit_zero>>
                   ELSE IF NeedsSphereSample(scene[res.val.obj], ray,
                                             res.val.hit)
                   THEN /\ pending' = res
                        /\ pc' = "scatter"
                        /\ UNCHANGED <<ray, depth, stack, result, path,
                                       rng_last, bounce_calls, tree_bounces,
                                       unit_zero>>
                   ELSE \E rand \in SchlickDraws :
                        \E b \in {Bounce(scene[res.val.obj], ray,
                                         res.val.hit, VecOrigin, rand)} :
                            /\ AfterBounce(b, VecOrigin, rand)
                            /\ rng_last' = IF b.drew THEN <<rand>> ELSE rng_last
                            /\ UNCHANGED pending
    /\ UNCHANGED <<config, img, x, y, s, sum>>

(* rand_on_unit_sphere: a sample outside the unit ball is drawn again      *)
ScatterReject ==
    /\ pc = "scatter"
    /\ tick' = ~tick
    /\ \E v \in CubeDraws :
        /\ ~SphereSampleAccepted(v)
        /\ rng_last' = <<v.x, v.y, v.z>>
    /\ UNCHANGED <<config, img, x, y, s, sum, pc, ray, depth, stack, pending,
                   result, path, history, tree>>

(* rand_on_unit_sphere returns and the bounce completes                    *)
ScatterAccept ==
    /\ pc = "scatter"
    /\ tick' = ~tick
    /\ \E v \in CubeDraws :
        /\ SphereSampleAccepted(v)
        /\ rng_last' = <<v.x, v.y, v.z>>
        /\ \E b \in {Bounce(scene[pending.val.obj], ray, pending.val.hit,
                            v, F(0))} : AfterBounce(b, v, F(0))
    /\ pending' = None
    /\ UNCHANGED <<config, img, x, y, s, sum, hit_queries, tree_queries,
                   written, px_failed, printed>>

UnwindKeepsInner ==
    /\ pc = "unwind"
    /\ tick' = ~tick
    /\ stack # <<>>
    /\ result' = result
    /\ stack' = SubSeq(stack, 1, Len(stack) - 1)
    /\ UNCHANGED <<config, img, x, y, s, sum, pc, ray, depth, pending,
                   rng_last, path, history, tree>>

(* a suspended call resumes: col * (the value returned)                    *)
Unwind ==
    /\ pc = "unwind"
    /\ tick' = ~tick
    /\ stack # <<>>
    /\ result' = CMul(stack[Len(stack)], result)
    /\ stack' = SubSeq(stack, 1, Len(stack) - 1)
    /\ UNCHANGED <<config, img, x, y, s, sum, pc, ray, depth, pending,
                   rng_last, path, history, tree>>

(* sum = sum + self.colorize_ray(scene, &ray, self.bounces)                *)
Accumulate ==
    /\ pc = "unwind"
    /\ tick' = ~tick
    /\ stack = <<>>
    /\ sum' = CAdd(sum, result)
    /\ s' = s + 1
    /\ pc' = IF s + 1 < samples THEN "sample" ELSE "write"
    /\ UNCHANGED <<config, img, x, y, ray, depth, stack, pending, result,
                   rng_last, path, history, tree>>

PixelValue(total, n) == PixelFrom(Gamma2(CMulS(total, FDiv(F(1), F(n)))))

(* *px = (sum * (1.0 / samples as f32)).gamma2().into(); next x, y         *)
WritePixel ==
    /\ pc = "write"
    /\ tick' = ~tick
    /\ \E px \in {Px(img, x, y)}, value \in {PixelValue(sum, samples)},
          next \in {LoopFrom(x + 1, y, img.width, img.height)} :
           /\ img' = [img EXCEPT !.pixels[px.val + 1] = value]
           /\ written' = Append(written,
                   [x |-> x, y |-> y, cell |-> px.val, value |-> value])
           /\ x' = next.x
           /\ y' = next.y
           /\ pc' = next.pc
    /\ UNCHANGED <<config, s, sum, ray, depth, stack, pending, result,
                   rng_last, path, hit_queries, bounce_calls, tree, unit_zero,
                   px_failed, printed>>

Next ==
    \/ PrintLine
    \/ BeginPixel
    \/ DrawJitter
    \/ LensReject
    \/ LensAccept
    \/ Trace
    \/ ScatterReject
    \/ ScatterAccept
    \/ Unwind
    \/ Accumulate
    \/ WritePixel

Spec == Init /\ [][Next]_vars

(* The render is a running program: until it has returned (or panicked)    *)
(* it takes another step.                                                  *)
Running == pc \notin {"done", "panic"} /\ tick' = ~tick

(* The loops of rand_on_unit_disc and rand_on_unit_sphere draw from the    *)
(* generator until a sample is accepted. The generator is uniform over     *)
(* the square (the cube), of which the accepted region is a fixed part,    *)
(* so a loop that goes on drawing comes to an accepted sample and is left  *)
(* (to the trace of the ray or to the return of colorize_ray).             *)
Accepting ==
    /\ pc \in {"lens", "scatter"}
    /\ pc' \in {"trace", "unwind"}
    /\ tick' = ~tick

FairSpec == Spec /\ WF_tick(Running) /\ WF_<<pc, tick>>(Accepting)

----------------------------------------------------------------------------
(* Single calls of the pure functions, on inputs drawn from the sets below *)

MaxObjects == 2
MaxCoord == 3

InsideBall == Sphere(V(0, 0, 0), F(2), Diffuse(Grey))
FarBall == Sphere(V(0, 0, 10), F(5), Diffuse(Grey))
ObjectPool == { Ball(Diffuse(Grey)), FarBall, InsideBall, Sky }

(* Scenes: what Scene::new followed by up to MaxObjects calls of add       *)
(* builds from the pool, in every order and with repeated objects; and the *)
(* scenes of three objects built without the enclosing ball.               *)
RECURSIVE ScenesOfLen(_)
ScenesOfLen(n) ==
    IF n = 0 THEN { SceneNew }
    ELSE { SceneAdd(q, o) : q \in ScenesOfLen(n - 1), o \in ObjectPool }
LongScenes ==
    { SceneAdd(SceneAdd(SceneAdd(SceneNew, a), b), c) :
        a, b, c \in ObjectPool \ {InsideBall} }
HitScenes == UNION { ScenesOfLen(n) : n \in 0..MaxObjects } \cup LongScenes

(* Rays along the axis through the balls, beside it (the far ball at 6 and *)
(* 14 on the 3-4-5 triple, a tangent, a miss), of length 2, backwards,     *)
(* sideways and of zero direction; with the default interval and with      *)
(* bounds on and between the roots.                                        *)
HitOrigins == { V(0, 0, 0), V(3, 0, 0), V(1, 0, 0), V(2, 0, 0) }
HitDirections == { V(0, 0, 1), V(0, 0, 2), V(0, 0, -1), V(0, 1, 0), V(0, 0, 0) }
HitIntervals ==
    { <<RayMinDefault, PosInf>>, <<F(2), PosInf>>, <<RayMinDefault, F(2)>>,
      <<F(3), PosInf>>, <<RayMinDefault, F(1)>>, <<Q(5, 2), Q(7, 2)>> }
HitRays ==
    { Ray(o, d, i[1], i[2]) : o \in HitOrigins, d \in HitDirections,
                               i \in HitIntervals }

(* Hits and rays for the materials: normals and directions on the 3-4-5    *)
(* triple, front, back and grazing.                                        *)
BounceNormals == { V(0, 0, -1), V(0, 0, 1), V(0, 1, 0) }
BounceDirections ==
    { V(0, 0, 1), V(0, 0, 2), V(3, 0, 4), V(4, 0, 3), V(4, 0, -3), V(1, 0, 0) }
(* A direction of length 129 that meets the normal (0, 0, -1) at a cosine  *)
(* of 1/129, below the fuzziness 1/128.                                    *)
GrazingDirections == { V(16, 128, 1) }
BounceMaterials ==
    { Diffuse(Grey), Diffuse(Black), Reflective(Cream, F(0)),
      Reflective(Cream, Q(1, 2)), Reflective(Cream, F(-1)),
      Reflective(Cream, Q(1, 128)),
      Dielectric(Q(4, 3)), Dielectric(Q(3, 4)) }
AcceptedCubeDraws == { v \in CubeDraws : SphereSampleAccepted(v) }

(* The discriminant of the object (a sphere) for the ray is negative or    *)
(* the square of an integer: the roots are multiples of 1/2 and every      *)
(* value Sphere::hit computes is exact in f32.                             *)
MaxRoot == 20
Squares == { F(n * n) : n \in 0..MaxRoot }
ExactRoots(obj, r) ==
    \/ obj.kind # "Sphere"
    \/ FLt(Discriminant(SphereQuad(obj, r)), F(0))
    \/ Discriminant(SphereQuad(obj, r)) \in Squares

SphereCalls ==
    { c \in (ObjectPool \ {Sky}) \X HitRays : ExactRoots(c[1], c[2]) }

SceneCalls ==
    { c \in HitScenes \X HitRays :
        \A i \in DOMAIN c[1] : ExactRoots(c[1][i], c[2]) }

CallInputs ==
    { [op |-> "Sphere::hit", sphere |-> c[1], ray |-> c[2], done |-> FALSE]
        : c \in SphereCalls }
    \cup
    { [op |-> "Background::hit", ray |-> r, done |-> FALSE] : r \in HitRays }
    \cup
    { [op |-> "Scene::hit", objects |-> c[1], ray |-> c[2], done |-> FALSE]
        : c \in SceneCalls }
    \cup
    { [op |-> "Scene::add", objects |-> q, obj |-> o, done |-> FALSE]
        : q \in UNION { ScenesOfLen(n) : n \in 0..(MaxObjects - 1) },
          o \in ObjectPool }
    \cup
    { [op |-> "bounce", obj |-> o,
       ray |-> RayNew(V(0, 0, 0), d),
       hit |-> HitResult(V(0, 0, 2), n, F(2)),
       x |-> v, rand |-> u, done |-> FALSE]
        : o \in { Ball(m) : m \in BounceMaterials } \cup {Sky},
          d \in BounceDirections \cup GrazingDirections,
          n \in BounceNormals,
          v \in AcceptedCubeDraws, u \in SchlickDraws }
    \cup
    { [op |-> "refract", self |-> d, normal |-> n, ior |-> i, rand |-> u,
       done |-> FALSE]
        : d \in BounceDirections, n \in BounceNormals,
          i \in {Q(4, 3), Q(3, 4), Q(3, 2)}, u \in SchlickDraws }
    \cup
    { [op |-> o, width |-> w, height |-> h, x |-> a, y |-> b, done |-> FALSE]
        : o \in {"px", "px_mut"}, w \in 0..MaxCoord, h \in 0..MaxCoord,
          a \in 0..(MaxCoord + 1), b \in 0..(MaxCoord + 1) }

PxMut(image, a, b) ==
    IF Enforce(image, a, b)
    THEN VecGet(image.pixels, b * image.width + a) ELSE None

RenderIdle ==
    /\ scene = <<>>
    /\ cam = CameraNew(V(0, 0, 0), V(0, 0, 1), 0, 0, 90, F(0))
    /\ samples = 0
    /\ bounces = 0
    /\ img = ImageNew(0, 0)
    /\ x = 0
    /\ y = 0
    /\ pc = "done"
    /\ s = 0
    /\ sum = Black
    /\ ray = NoRay
    /\ depth = 0
    /\ stack = <<>>
    /\ pending = None
    /\ result = Black
    /\ rng_last = <<>>
    /\ path = <<>>
    /\ hit_queries = 0
    /\ bounce_calls = 0
    /\ tree_queries = 0
    /\ tree_bounces = 0
    /\ written = <<>>
    /\ unit_zero = FALSE
    /\ px_failed = FALSE
    /\ printed = <<>>
    /\ tick = FALSE

CallInit == RenderIdle /\ call \in CallInputs

Finish(out) ==
    /\ call' = [call EXCEPT !.done = TRUE] @@ [out |-> out]
    /\ UNCHANGED render_vars

CallSphereHit ==
    /\ call.op = "Sphere::hit" /\ ~call.done
    /\ Finish(SphereHit(call.sphere, call.ray))

CallBackgroundHit ==
    /\ call.op = "Background::hit" /\ ~call.done
    /\ Finish(BackgroundHit(Sky, call.ray))

CallSceneHit ==
    /\ call.op = "Scene::hit" /\ ~call.done
    /\ Finish(SceneHit(call.objects, call.ray))

CallSceneAdd ==
    /\ call.op = "Scene::add" /\ ~call.done
    /\ Finish(SceneAdd(call.objects, call.obj))

CallBounce ==
    /\ call.op = "bounce" /\ ~call.done
    /\ Finish(Bounce(call.obj, call.ray, call.hit, call.x, call.rand))

CallRefract ==
    /\ call.op = "refract" /\ ~call.done
    /\ Finish(Refract(call.self, call.normal, call.ior, call.rand))

CallPx ==
    /\ call.op = "px" /\ ~call.done
    /\ Finish(Px(ImageNew(call.width, call.height), call.x, call.y))

CallPxMut ==
    /\ call.op = "px_mut" /\ ~call.done
    /\ Finish(PxMut(ImageNew(call.width, call.height), call.x, call.y))

CallNext ==
    \/ CallSphereHit
    \/ CallBackgroundHit
    \/ CallSceneHit
    \/ CallSceneAdd
    \/ CallBounce
    \/ CallRefract
    \/ CallPx
    \/ CallPxMut

CallSpec == CallInit /\ [][CallNext]_vars

----------------------------------------------------------------------------
(* Properties                                                              *)

Called(op) == call.op = op /\ call.done

(* The parameters t of the grid: every multiple of 1/2 up to RootSpan/2    *)
(* in absolute value; the roots of every sphere and ray above lie on it,   *)
(* and f32 arithmetic is exact on them.                                    *)
RootSpan == 40
RootGrid == { Q(n, 2) : n \in (0 - RootSpan)..RootSpan }

(* t solves a*t^2 + 2*half_b*t + c = 0.                                    *)
SolvesQuadratic(a, half_b, c, t) ==
    IsZero(FAdd(FAdd(FMul(a, FMul(t, t)), FMul(F(2), FMul(half_b, t))), c))

MovingRay(r) == ~IsZeroVec(r.direction)

(* The parameters at which the ray meets the sphere: the roots of the      *)
(* quadratic with a = d.d, half_b = (o - centre).d and                     *)
(* c = (o - centre).(o - centre) - r^2; the formula                        *)
(* (-half_b +- sqrt(disc)) / a gives none when a = 0.                      *)
RootsOf(sphere, r) ==
    IF MovingRay(r)
    THEN LET oc == VSub(r.origin, sphere.origin)
             a == Dot(r.direction, r.direction)
             half_b == Dot(oc, r.direction)
             c == FSub(Dot(oc, oc), FMul(sphere.radius, sphere.radius))
         IN  { t \in RootGrid : SolvesQuadratic(a, half_b, c, t) }
    ELSE {}

RootsInRange(sphere, r) ==
    { t \in RootsOf(sphere, r) : FLe(r.min, t) /\ FLe(t, r.max) }

(* C2: Sphere.hit returns no hit when the ray has no root of the sphere's  *)
(* quadratic inside [ray.min, ray.max], bounds included (a negative        *)
(* discriminant: no root at all); otherwise the `at` it returns is the     *)
(* smallest root inside the interval.                                      *)
C2_SphereHitSmallestRootInRange ==
    Called("Sphere::hit") =>
        IF RootsInRange(call.sphere, call.ray) = {}
        THEN ~call.out.some
        ELSE /\ call.out.some
             /\ call.out.val.at \in RootsInRange(call.sphere, call.ray)
             /\ \A t \in RootsInRange(call.sphere, call.ray) :
                    FLe(call.out.val.at, t)

(* C2 happens: the near root lies below ray.min and the far root, inside   *)
(* the interval, is returned.                                              *)
C2_FarRootReturned ==
    /\ Called("Sphere::hit")
    /\ call.out.some
    /\ \E t \in RootsOf(call.sphere, call.ray) :
           FLt(t, call.out.val.at) /\ FLt(t, call.ray.min)

(* The grid holds both roots whenever the discriminant is not negative.    *)
GridHoldsRoots ==
    (Called("Sphere::hit") /\ MovingRay(call.ray)) =>
        LET disc == Discriminant(SphereQuad(call.sphere, call.ray))
        IN  /\ FLt(disc, F(0)) => RootsOf(call.sphere, call.ray) = {}
            /\ IsZero(disc) => Cardinality(RootsOf(call.sphere, call.ray)) = 1
            /\ FLt(F(0), disc) =>
                   Cardinality(RootsOf(call.sphere, call.ray)) = 2

(* The objects of a scene that the ray hits, each asked on its own.        *)
HitBy(objects, r) == { i \in DOMAIN objects : ObjHit(objects[i], r).some }

AtOf(objects, r, i) == ObjHit(objects[i], r).val.at

DistinctDistances(objects, r) ==
    \A i, j \in HitBy(objects, r) :
        AtOf(objects, r, i) = AtOf(objects, r, j) => i = j

Reordered(objects, p) == [i \in DOMAIN objects |-> objects[p[i]]]

IsInjective(f) == \A i, j \in DOMAIN f : f[i] = f[j] => i = j

(* The permutations of the positions of a scene.                           *)
Orders(objects) ==
    { p \in [DOMAIN objects -> DOMAIN objects] : IsInjective(p) }

SameAnswer(o1, objects1, o2, objects2) ==
    /\ o1.some = o2.some
    /\ o1.some =>
           /\ o1.val.hit = o2.val.hit
           /\ objects1[o1.val.obj] = objects2[o2.val.obj]

(* C1: Scene.hit returns none exactly when no object of the scene hits the *)
(* ray inside [min, max]; otherwise it returns a hit of smallest `at`      *)
(* among the objects' hits, with the object that produced it; and when the *)
(* hit distances are pairwise distinct, every insertion order of the same  *)
(* objects gives the same hit and object.                                  *)
C1_SceneHitReturnsNearest ==
    Called("Scene::hit") =>
        /\ call.out.some <=> HitBy(call.objects, call.ray) # {}
        /\ call.out.some =>
               /\ call.out.val.obj \in HitBy(call.objects, call.ray)
               /\ call.out.val.hit =
                      ObjHit(call.objects[call.out.val.obj], call.ray).val
               /\ \A i \in HitBy(call.objects, call.ray) :
                      FLe(call.out.val.hit.at, AtOf(call.objects, call.ray, i))
        /\ DistinctDistances(call.objects, call.ray) =>
               \A p \in Orders(call.objects) :
                   SameAnswer(call.out, call.objects,
                              SceneHit(Reordered(call.objects, p), call.ray),
                              Reordered(call.objects, p))

(* C1 happens: the scan meets the nearest object first and a farther one,  *)
(* which the ray also hits, after it.                                      *)
C1_NearestBeforeFarther ==
    /\ Called("Scene::hit")
    /\ call.out.some
    /\ \E j \in HitBy(call.objects, call.ray) :
           /\ j > call.out.val.obj
           /\ call.objects[j].kind = "Sphere"
           /\ FLt(call.out.val.hit.at, AtOf(call.objects, call.ray, j))

HasBackground(objects) == \E i \in DOMAIN objects : objects[i].kind = "Background"

SphereRootsInRange(objects, r) ==
    UNION { RootsInRange(objects[i], r) :
              i \in { j \in DOMAIN objects : objects[j].kind = "Sphere" } }

(* C9: Background.hit returns a hit exactly when the ray's max is          *)
(* +infinity, and Background's bounce returns no continuation ray; so, in  *)
(* a scene holding a Background at any position, Scene.hit of a ray with   *)
(* max = +infinity is never none, is the Background exactly when no sphere *)
(* has a root in the ray's range, and is otherwise a sphere at the         *)
(* smallest such root.                                                     *)
C9_BackgroundCatchesEscapingRays ==
    /\ Called("Background::hit") =>
           (call.out.some <=> call.ray.max = PosInf)
    /\ (Called("bounce") /\ call.obj.kind = "Background") =>
           ~call.out.ray.some
    /\ ( /\ Called("Scene::hit")
         /\ HasBackground(call.objects)
         /\ call.ray.max = PosInf ) =>
           LET roots == SphereRootsInRange(call.objects, call.ray)
           IN  /\ call.out.some
               /\ call.objects[call.out.val.obj].kind = "Background"
                      <=> roots = {}
               /\ call.objects[call.out.val.obj].kind = "Sphere" =>
                      /\ call.out.val.hit.at
                             \in RootsInRange(call.objects[call.out.val.obj],
                                              call.ray)
                      /\ \A t \in roots : FLe(call.out.val.hit.at, t)

(* C9 happens: the Background is scanned first, a sphere after it is hit   *)
(* and the sphere is returned.                                             *)
C9_SphereAfterBackground ==
    /\ Called("Scene::hit")
    /\ call.ray.max = PosInf
    /\ Len(call.objects) >= 2
    /\ call.objects[1].kind = "Background"
    /\ call.out.some
    /\ call.objects[call.out.val.obj].kind = "Sphere"

(* The cell px / px_mut returns for the called raster.                     *)
CellOf(op, image, a, b) ==
    IF op = "px" THEN Px(image, a, b) ELSE PxMut(image, a, b)

(* C5: px(x, y) and px_mut(x, y) are absent exactly when x >= W or y >= H; *)
(* otherwise they give the cell y*W + x, which lies inside the buffer and  *)
(* differs from the cell of every other in-bounds coordinate.              *)
C5_PixelAccessBounds ==
    (Called("px") \/ Called("px_mut")) =>
        /\ ~call.out.some <=> (call.x >= call.width \/ call.y >= call.height)
        /\ call.out.some =>
               /\ call.out.val = call.y * call.width + call.x
               /\ call.out.val < Len(ImageNew(call.width, call.height).pixels)
               /\ \A a \in 0..(call.width - 1), b \in 0..(call.height - 1) :
                      <<a, b>> # <<call.x, call.y>> =>
                          CellOf(call.op, ImageNew(call.width, call.height),
                                 a, b) # call.out

(* C5 happens: the last cell of a raster of several rows and columns is    *)
(* returned, and an access one past the last column is refused.            *)
C5_LastCellReturned ==
    /\ Called("px_mut")
    /\ call.width > 1 /\ call.height > 1
    /\ call.x = call.width - 1 /\ call.y = call.height - 1
    /\ call.out = Some(call.width * call.height - 1)

C5_PastLastColumnRefused ==
    /\ Called("px")
    /\ call.width > 1 /\ call.x = call.width /\ call.y < call.height
    /\ call.out = None

(* C7: Diffuse and Reflective bounce return black and no continuation ray  *)
(* exactly when normal . ray.direction >= 0, and otherwise their albedo    *)
(* unchanged with a continuation ray; Dielectric bounce returns white with *)
(* a continuation ray for every hit and every draw.                        *)
C7_BounceEndsPathOnlyFromInside ==
    (Called("bounce") /\ call.obj.kind = "Sphere") =>
        IF call.obj.material.kind = "Dielectric"
        THEN /\ call.out.col = White
             /\ call.out.ray.some
             /\ call.out.ray.val.origin = call.hit.intersect
        ELSE IF FLe(F(0), Dot(call.hit.normal, call.ray.direction))
        THEN call.out.col = Black /\ ~call.out.ray.some
        ELSE /\ call.out.col = call.obj.material.color
             /\ call.out.ray.some
             /\ call.out.ray.val.origin = call.hit.intersect

(* C7 happens: a Diffuse or Reflective surface is met along its tangent    *)
(* (normal . direction = 0) and the path ends in black.                    *)
C7_GrazingHitEndsPath ==
    /\ Called("bounce")
    /\ call.obj.kind = "Sphere"
    /\ call.obj.material.kind \in {"Diffuse", "Reflective"}
    /\ Dot(call.hit.normal, call.ray.direction) = F(0)
    /\ call.out.col = Black /\ ~call.out.ray.some

C7_FrontHitContinues ==
    /\ Called("bounce")
    /\ call.obj.kind = "Sphere"
    /\ call.obj.material.kind = "Reflective"
    /\ call.out.col = Cream /\ call.out.ray.some

(* The side of the surface refract works on, from the unit incoming        *)
(* direction: the ratio of indices, the normal used, and cos(theta).       *)
UsedRatio(I, normal, ior) ==
    IF FLt(Dot(I, normal), F(0)) THEN FDiv(F(1), ior) ELSE ior

UsedNormal(I, normal) ==
    IF FLt(Dot(I, normal), F(0)) THEN normal ELSE VNeg(normal)

(* ior_ratio * sin(theta) > 1, squared: ratio^2 * (1 - cos^2) > 1.         *)
TotalInternalReflection(I, normal, ior) ==
    FLt(F(1), FMul(Square(UsedRatio(I, normal, ior)),
                   FSub(F(1), Square(Dot(I, normal)))))

(* C8: whenever ior_ratio * sin(theta) > 1, refract returns the reflection *)
(* of the unit incoming direction about the normal it used, whatever the   *)
(* random draw would be, and consumes no random number.                    *)
C8_TotalReflectionBeforeDraw ==
    ( /\ Called("refract")
      /\ TotalInternalReflection(Unit(call.self), call.normal, call.ior) ) =>
        /\ call.out.dir =
               Reflect(Unit(call.self), UsedNormal(Unit(call.self), call.normal))
        /\ ~call.out.drew
        /\ \A u \in SchlickDraws :
               Refract(call.self, call.normal, call.ior, u) = call.out

(* C8 happens: a ray inside the denser medium beyond the critical angle,   *)
(* with a draw that would have refracted it had the draw been taken.       *)
C8_BeyondCriticalAngle ==
    /\ Called("refract")
    /\ TotalInternalReflection(Unit(call.self), call.normal, call.ior)
    /\ FLt(F(0), Dot(call.self, call.normal))
    /\ call.rand = Q(1, 2)
    /\ ~call.out.drew

C8_BelowCriticalAngleDraws ==
    /\ Called("refract")
    /\ ~TotalInternalReflection(Unit(call.self), call.normal, call.ior)
    /\ call.out.drew

(* What one call colorize_ray(c.ray, c.depth) does before it returns or    *)
(* recurses, given the values c.x and c.rand its material draws.           *)
CallOutcome(objs, c) ==
    IF c.depth = 0 THEN [kind |-> "exhausted", col |-> FromRgb(245, 66, 129)]
    ELSE LET res == SceneHit(objs, c.ray)
         IN  IF ~res.some THEN [kind |-> "miss", col |-> Black]
             ELSE LET b == Bounce(objs[res.val.obj], c.ray, res.val.hit,
                                  c.x, c.rand)
                  IN  IF b.ray.some
                      THEN [kind |-> "continue", col |-> b.col,
                            next |-> b.ray.val]
                      ELSE [kind |-> "terminal", col |-> b.col]

(* The value the claim gives the i-th call of a chain of calls.            *)
RECURSIVE ColorizeRay(_, _, _)
ColorizeRay(objs, calls, i) ==
    LET o == CallOutcome(objs, calls[i])
    IN  IF o.kind = "continue" /\ i < Len(calls)
        THEN CMul(o.col, ColorizeRay(objs, calls, i + 1))
        ELSE o.col

(* Each call of the chain but the last recursed, with its continuation ray *)
(* and one bounce less; the last did not recurse.                          *)
Chained(objs, calls) ==
    \A i \in 1..Len(calls) :
        LET o == CallOutcome(objs, calls[i])
        IN  IF i < Len(calls)
            THEN /\ o.kind = "continue"
                 /\ calls[i + 1].ray = o.next
                 /\ calls[i + 1].depth = calls[i].depth - 1
            ELSE o.kind # "continue"

Queried(calls) == { i \in 1..Len(calls) : calls[i].depth > 0 }

(* C3: whenever a call colorize_ray(ray, depth) has returned, its value is *)
(* the fallback color if depth = 0, with no scene query made by it; black  *)
(* if depth > 0 and the scene has no hit; the attenuation alone if the     *)
(* material returned no continuation ray; and attenuation times the value  *)
(* of colorize_ray(continuation, depth - 1) otherwise. The fallback color  *)
(* is not black. (The chain of calls is checked when its innermost call    *)
(* returns, the value each time a call of the chain returns.)              *)
C3_ColorizeRayRecursion ==
    pc = "unwind" =>
        /\ path[1].depth = bounces
        /\ Len(path) = Len(stack) + 1 => Chained(scene, path)
        /\ result = ColorizeRay(scene, path, Len(stack) + 1)
        /\ tree_queries = Cardinality(Queried(path))
        /\ FallbackColor # Black

(* C3 happens: with bounces = 1 the first hit continued, and render's call *)
(* has returned attenuation x fallback color, which is not black.          *)
C3_OneBounceGivesTintedFallback ==
    /\ pc = "unwind"
    /\ bounces = 1
    /\ stack = <<>>
    /\ Len(path) = 2
    /\ path[1].kind = "continue"
    /\ path[1].col \notin {Black, White}
    /\ result = CMul(path[1].col, FromRgb(245, 66, 129))
    /\ result # Black

(* A call of ReflectiveMaterial::bounce on a front-face hit.               *)
ReflectiveFrontHit ==
    /\ Called("bounce")
    /\ call.obj.kind = "Sphere"
    /\ call.obj.material.kind = "Reflective"
    /\ IsOutside(call.hit, call.ray)

(* The continuation direction C12 states for fuzziness f, hit normal n,    *)
(* ray direction d and random unit vector rand_dir.                        *)
StatedReflectiveDir(f, n, d, rand_dir) ==
    LET reflected == Reflect(Unit(d), n)
        fuzzy == VAdd(reflected, VMulS(rand_dir, f))
        scatter == VAdd(n, rand_dir)
    IN  IF ~FLt(f, Q(1, 100)) THEN reflected
        ELSE IF ~FLe(Dot(fuzzy, n), F(0)) THEN fuzzy
        ELSE IF IsTiny(scatter, Q(1, 10000)) THEN n
        ELSE Unit(scatter)

(* C12: a Reflective bounce on a front-face hit continues along the        *)
(* reflection perturbed by fuzziness x random sample exactly when          *)
(* fuzziness < 0.01 and along the plain reflection otherwise; when the     *)
(* perturbed direction has a dot product <= 0 with the normal, it          *)
(* continues along the normal if normal + random sample is near zero       *)
(* (every component below 1e-4 in magnitude, the test Diffuse makes) and   *)
(* along unit(normal + random sample) otherwise.                           *)
C12_ReflectiveFallbackAsDiffuse ==
    ReflectiveFrontHit =>
        /\ call.out.ray.some
        /\ call.out.drew = FLt(call.obj.material.fuzziness, Q(1, 100))
        /\ call.out.ray.val.direction =
               StatedReflectiveDir(call.obj.material.fuzziness,
                                   call.hit.normal, call.ray.direction,
                                   Unit(call.x))

(* render has just received a lens offset from rand_on_unit_disc: it is    *)
(* the pair the generator returned last.                                   *)
LensOffsetReturned == pc = "trace" /\ path = <<>> /\ tree_queries = 0

InUnitDisc(p) == FLe(FAdd(FMul(p[1], p[1]), FMul(p[2], p[2])), F(1))

(* Among the pairs rand_on_unit_disc can return to render there is one     *)
(* with this property of its coordinates.                                  *)
CanReturnNegativeX == \E d \in LensResults : FLt(d[1], F(0))
CanReturnNegativeY == \E d \in LensResults : FLt(d[2], F(0))
CanReturnPositive ==
    \E d \in LensResults : FLt(F(0), d[1]) \/ FLt(F(0), d[2])

(* C13: the lens offset drawn for a sample is a point of the unit disc     *)
(* (x^2 + y^2 <= 1), and the draw ranges over the whole disc: whenever     *)
(* render is about to draw the offset, a point with a negative x, a point  *)
(* with a negative y and a point with a positive coordinate are all        *)
(* possible results.                                                       *)
C13_LensOffsetOverWholeDisc ==
    /\ LensOffsetReturned => InUnitDisc(rng_last)
    /\ pc = "lens" =>
           /\ CanReturnNegativeX
           /\ CanReturnNegativeY
           /\ CanReturnPositive

(* The values the generators hand to the calls of a chain, in call order:  *)
(* the scripted sequence of C11.                                           *)
ScriptOf(calls) == [i \in 1..Len(calls) |-> <<calls[i].x, calls[i].rand>>]

(* colorize_ray(r, d) computed from the scene, the ray, the depth and the  *)
(* script alone, the i-th entry of the script being the next one unread.   *)
RECURSIVE Scripted(_, _, _, _, _)
Scripted(objs, r, d, script, i) ==
    IF d <= 0 THEN FromRgb(245, 66, 129)
    ELSE LET res == SceneHit(objs, r)
         IN  IF ~res.some THEN Black
             ELSE LET b == Bounce(objs[res.val.obj], r, res.val.hit,
                                  script[i][1], script[i][2])
                  IN  IF b.ray.some
                      THEN CMul(b.col, Scripted(objs, b.ray.val, d - 1,
                                                script, i + 1))
                      ELSE b.col

(* The calls of the current tree in which a generator was advanced.        *)
DrewIn(objs, calls) ==
    { i \in 1..Len(calls) :
        /\ calls[i].kind = "continue"
        /\ LET res == SceneHit(objs, calls[i].ray)
           IN  Bounce(objs[res.val.obj], calls[i].ray, res.val.hit,
                      calls[i].x, calls[i].rand).drew }

(* C11: the color a call colorize_ray(ray, depth) returns is a function of *)
(* the scene, the ray, the depth and the sequence of values the random     *)
(* generators yield to it: whenever the call render made has returned, its *)
(* value is the one computed from these four alone, whatever the pixel,    *)
(* the sample number, the accumulated sum or the earlier draws of the      *)
(* render were. So two runs that agree on scene, ray, depth and script     *)
(* return the same color.                                                  *)
C11_ColorizeRayFunctionOfScript ==
    (pc = "unwind" /\ stack = <<>>) =>
        /\ path # <<>>
        /\ result = Scripted(scene, path[1].ray, bounces, ScriptOf(path), 1)

(* C11 happens: the second sample of a pixel has returned from a call tree *)
(* in which a material drew from its generator, while the pixel's sum      *)
(* already holds a color from the first sample.                            *)
C11_SecondRunWithDraws ==
    /\ pc = "unwind"
    /\ stack = <<>>
    /\ s = 1
    /\ sum # Black
    /\ bounces > 1
    /\ DrewIn(scene, path) # {}
    /\ result \notin {Black, FromRgb(245, 66, 129)}

(* The calls made for one colorize_ray(ray, n) and for the whole render   *)
(* are bounded: the recursion is never deeper than n, one call makes at    *)
(* most n nearest-hit queries and at most n bounce calls, and the render   *)
(* makes at most width * height * samples * bounces queries.               *)
WorkBounded ==
    /\ Len(stack) <= bounces
    /\ tree_queries <= bounces
    /\ tree_bounces <= tree_queries
    /\ pc = "trace" => tree_queries + depth <= bounces
    /\ pc = "scatter" => tree_queries <= bounces /\ depth >= 1
    /\ \A i \in 1..Len(path) :
           Cardinality({ j \in Queried(path) : j >= i })
               + (IF pc = "scatter" THEN 1 ELSE 0) <= path[i].depth
    /\ hit_queries <= img.width * img.height * samples * bounces
    /\ bounce_calls <= hit_queries

(* The write of a row's progress line to standard output has failed and    *)
(* the unwrap has ended the render with a panic.                           *)
StdoutPanic == pc = "panic" /\ ~px_failed

(* Every progress line of the render is written.                           *)
StdoutWorks == []~StdoutPanic

(* C4: rendering always terminates and its work is bounded. At every step  *)
(* of a render the calls made are within the bounds of WorkBounded, and    *)
(* the render, whose progress lines are written to standard output (the    *)
(* logging is no part of the rendering core), comes to return the image.   *)
C4_RenderTerminatesWithBoundedWork ==
    []WorkBounded /\ (StdoutWorks => <>(pc = "done"))

(* C4 happens: a render of several samples has returned after making      *)
(* every query and every bounce call the bound allows.                     *)
C4_RenderUsedWholeBudget ==
    /\ pc = "done"
    /\ img.width * img.height > 0
    /\ samples > 1
    /\ bounces > 1
    /\ hit_queries = img.width * img.height * samples * bounces
    /\ bounce_calls = hit_queries

(* C6: the pixels are written one by one in row-major order (row y before  *)
(* row y + 1, column x before column x + 1), each in-range pixel exactly   *)
(* once by the time render returns; a written pixel keeps its value; and   *)
(* the loop's px_mut never fails.                                          *)
C6_PixelsWrittenOnceRowMajor ==
    /\ \A i \in 1..Len(written) :
           /\ written[i].x = (i - 1) % img.width
           /\ written[i].y = (i - 1) \div img.width
           /\ written[i].x < img.width /\ written[i].y < img.height
           /\ written[i].cell = i - 1
           /\ img.pixels[written[i].cell + 1] = written[i].value
    /\ pc = "done" => Len(written) = img.width * img.height
    /\ ~px_failed

(* C6 happens: a 2 x 2 raster is complete and its pixels are not all the   *)
(* same.                                                                   *)
C6_RasterCompleted ==
    /\ pc = "done"
    /\ img.width > 1 /\ img.height > 1
    /\ Len(written) = img.width * img.height
    /\ \E i, j \in 1..Len(written) : written[i].value # written[j].value

(* C10: no step of camera construction, of random direction sampling or of *)
(* a material's bounce has called unit() on the zero vector.               *)
C10_UnitNeverOnZeroVector == ~unit_zero

====
